---- MODULE Spec2Model ----
(***************************************************************************)
(* The Stripe webhook receiver of apps/web (pages/api/stripe/webhook):     *)
(* signature verification, dispatch on the event type, the subscription    *)
(* update and the provisioning of the signed supporter pledge.             *)
(*                                                                         *)
(* Every delivery is one run of `handler`.  The runs interleave at their   *)
(* awaits; each awaited call on the database, the cache or the PDF library *)
(* is one step.                                                            *)
(***************************************************************************)
EXTENDS Integers, Sequences, FiniteSets, TLC

\* Number of webhook deliveries of one run of the model.
NumDeliveries == 2

\* Largest reading of the wall clock (new Date()); readings start at 0.
MaxClock == 1

Deliveries == 1..NumDeliveries

\* Number of awaited calls that reject in one run of the model.
MaxRejections == 2

\* null / undefined of the source, for values that are otherwise strings.
Null == "<null>"

\* JavaScript truthiness of a string | null | undefined value.
Truthy(s) == s # Null /\ s # ""

\* a || b on such values.
OrElse(a, b) == IF Truthy(a) THEN a ELSE b

\* a ?? b on such values.
Coalesce(a, b) == IF a # Null THEN a ELSE b

-----------------------------------------------------------------------------
(* Requests *)

\* The only header value stripe.webhooks.constructEvent accepts for the
\* delivered body and the configured secret.
ValidSignature == "t=1,v1=valid"

\* req.headers['stripe-signature']: undefined, a string or a string[].
Headers ==
    { [kind |-> "undefined", value |-> Null],
      [kind |-> "array", value |-> ValidSignature],
      [kind |-> "string", value |-> ""],
      [kind |-> "string", value |-> "t=1,v1=forged"],
      [kind |-> "string", value |-> ValidSignature] }

\* The `sig` of the handler.
SigOf(hdr) == IF hdr.kind = "string" THEN hdr.value ELSE ""

\* stripe.webhooks.constructEvent(body, sig, secret): TRUE iff it returns the
\* event, FALSE iff it throws StripeSignatureVerificationError.
ConstructEventOk(sig) == sig = ValidSignature

NoMetadata ==
    [present |-> FALSE, source |-> Null, signatureText |-> Null,
     signatureDataUrl |-> Null]

\* The customer a subscription is for: a string, or the expanded object.
Customers ==
    { [kind |-> "string", string |-> "cus_1", id |-> Null],
      [kind |-> "object", string |-> Null, id |-> "cus_1"],
      [kind |-> "string", string |-> "cus_2", id |-> Null],
      [kind |-> "string", string |-> "cus_404", id |-> Null] }

\* Plan, cancellation flag, period end and status of the subscriptions
\* delivered; `plan` is null for a subscription with several plans.
SubscriptionTerms ==
    { [plan |-> "plan_a", cancel |-> FALSE, periodEnd |-> 1, status |-> s] :
        s \in {"active", "past_due", "canceled", "unpaid", ""} }
    \cup
    { [plan |-> "plan_b", cancel |-> TRUE, periodEnd |-> 2,
       status |-> "past_due"],
      [plan |-> Null, cancel |-> FALSE, periodEnd |-> 2, status |-> "active"] }

\* Stripe.Subscription payloads (event.data.object).
SubscriptionObjects ==
    { [customer |-> c, plan |-> p.plan, status |-> p.status,
       cancel_at_period_end |-> p.cancel, current_period_end |-> p.periodEnd] :
        c \in Customers, p \in SubscriptionTerms }

SubscriptionEvents ==
    { [type |-> "customer.subscription.updated", object |-> o,
       client_reference_id |-> Null, metadata |-> NoMetadata] :
        o \in SubscriptionObjects }

NoObject ==
    [customer |-> [kind |-> "string", string |-> Null, id |-> Null],
     plan |-> Null,
     status |-> Null, cancel_at_period_end |-> FALSE, current_period_end |-> 0]

\* session.metadata of the landing page's checkout.
LandingMetadata ==
    { [present |-> TRUE, source |-> "landing", signatureText |-> t,
       signatureDataUrl |-> u] :
        t \in {Null, "", "Ann B."},
        u \in {Null, "sig_hit", "sig_miss", "sig_blank"} }

\* session.metadata of every other checkout (absent, or another source).
OtherMetadata ==
    { NoMetadata,
      [present |-> TRUE, source |-> Null, signatureText |-> "Ann B.",
       signatureDataUrl |-> "sig_hit"],
      [present |-> TRUE, source |-> "app", signatureText |-> Null,
       signatureDataUrl |-> Null],
      [present |-> TRUE, source |-> "Landing", signatureText |-> Null,
       signatureDataUrl |-> "sig_hit"] }

CheckoutEventsOf(metas, refs) ==
    { [type |-> "checkout.session.completed", object |-> NoObject,
       client_reference_id |-> r, metadata |-> m] :
        m \in metas, r \in refs }

\* Landing checkouts: the metadata that take different paths, for a user
\* with a name, one whose name is null, one whose name is empty, an unknown
\* user and a missing reference.
LandingEvents ==
    CheckoutEventsOf(
        { m \in LandingMetadata :
            \/ /\ m.signatureText \in {Null, "Ann B."}
               /\ m.signatureDataUrl \in {Null, "sig_hit", "sig_miss"}
            \/ m.signatureText = "" /\ m.signatureDataUrl = Null
            \/ m.signatureText = Null /\ m.signatureDataUrl = "sig_blank" },
        {"1"})
    \cup CheckoutEventsOf(
            { m \in LandingMetadata :
                /\ m.signatureText \in {Null, "Ann B."}
                /\ m.signatureDataUrl \in {Null, "sig_hit"} }, {"2"})
    \cup CheckoutEventsOf(
            { m \in LandingMetadata :
                m.signatureText = Null /\ m.signatureDataUrl = Null }, {"3"})
    \cup CheckoutEventsOf(
            { m \in LandingMetadata :
                m.signatureText = Null /\ m.signatureDataUrl = "sig_hit" },
            {"9", Null})

NonLandingEvents == CheckoutEventsOf(OtherMetadata, {"1"})

\* Events of a type the handler has no branch for.
OtherEvents ==
    { [type |-> t, object |-> NoObject, client_reference_id |-> Null,
       metadata |-> NoMetadata] :
        t \in {"customer.subscription.deleted", "checkout.session.expired",
               "invoice.paid", ""} }

NoEvent ==
    [type |-> Null, object |-> NoObject, client_reference_id |-> Null,
     metadata |-> NoMetadata]

-----------------------------------------------------------------------------
(* Stores *)

\* prisma.user: the rows this handler can look up (name is nullable).
Users ==
    (1 :> [id |-> 1, name |-> "Ann", email |-> "ann@example.com"]) @@
    (2 :> [id |-> 2, name |-> Null, email |-> "bob@example.com"]) @@
    (3 :> [id |-> 3, name |-> "", email |-> "cy@example.com"])

\* Number(session.client_reference_id); Number(null) is 0.
Number(ref) ==
    CASE ref = "1" -> 1
      [] ref = "2" -> 2
      [] ref = "3" -> 3
      [] ref = "9" -> 9
      [] OTHER -> 0

\* The cache entries under `signature:<reference>`.
RedisStore ==
    ("signature:sig_hit" :> "data:image/png;base64,iVBOR") @@
    ("signature:sig_blank" :> "")

\* redis.get<string>(key): the value, or null on a miss.
RedisGetValue(key) ==
    IF key \in DOMAIN RedisStore THEN RedisStore[key] ELSE Null

\* readFileSync('./public/documenso-supporter-pledge.pdf').toString('base64')
Bytes64 == [base |-> "documenso-supporter-pledge.pdf", marks |-> <<>>]

NoContent == [base |-> Null, marks |-> <<>>]

\* randomBytes(16).toString('hex'), 128 random bits: the n-th call returns a
\* value no earlier call returned.
RandomToken(n) == <<"token", n>>

\* The Subscription rows present before any delivery, keyed by customerId.
InitialSubscriptions ==
    ("cus_1" :> [planId |-> "plan_a", status |-> "ACTIVE",
                 cancelAtPeriodEnd |-> FALSE, periodEnd |-> 1000,
                 updatedAt |-> 0]) @@
    ("cus_2" :> [planId |-> "plan_b", status |-> "INACTIVE",
                 cancelAtPeriodEnd |-> TRUE, periodEnd |-> 2000,
                 updatedAt |-> 0])

-----------------------------------------------------------------------------
(* State *)

VARIABLES
    pc,             \* where each delivery's run of handler stands
    header,         \* the stripe-signature header of each delivery
    event,          \* the event constructEvent returned to each delivery
    local,          \* the locals of each delivery's run
    resp,           \* what each run answered, or the error it threw
    trace,          \* the calls each run made on the database and the cache
    sigWrite,       \* state of the prisma.signature.create of Promise.all
    docWrite,       \* state of the prisma.document.update of Promise.all
    clock,          \* the wall clock
    rejections,     \* how many awaited calls have rejected
    subscriptions,  \* prisma.subscription, by customerId
    documentData,   \* prisma.documentData, by id
    documents,      \* prisma.document, by id
    recipients,     \* prisma.recipient, by id
    fields,         \* prisma.field, by id
    signatures      \* prisma.signature, by id

runVars == <<pc, header, event, local, resp, trace, sigWrite, docWrite>>

provisioned == <<documentData, documents, recipients, fields, signatures>>

db == <<subscriptions, provisioned>>

vars == <<runVars, clock, rejections, db>>

NoHeader == [kind |-> "undefined", value |-> Null]

NoField == [page |-> 0, positionX |-> 0, positionY |-> 0]

NoLocal ==
    [customerId |-> Null, planId |-> Null, status |-> Null,
     userId |-> 0, userName |-> Null, userEmail |-> Null,
     signatureText |-> Null, signatureDataUrl |-> "", now |-> 0,
     documentDataId |-> 0, documentId |-> 0, data |-> NoContent,
     recipientId |-> 0, fieldId |-> 0, field |-> NoField]

NoResponse == [status |-> 0, message |-> Null]

\* res.status(code).json({success, message})
Json(code, message) == [status |-> code, message |-> message]

\* An error that leaves the handler: no res.status(...) call is made.
Thrown(error) == [status |-> 0, message |-> error]

Init ==
    /\ pc = [d \in Deliveries |-> "idle"]
    /\ header = [d \in Deliveries |-> NoHeader]
    /\ event = [d \in Deliveries |-> NoEvent]
    /\ local = [d \in Deliveries |-> NoLocal]
    /\ resp = [d \in Deliveries |-> NoResponse]
    /\ trace = [d \in Deliveries |-> <<>>]
    /\ sigWrite = [d \in Deliveries |-> "none"]
    /\ docWrite = [d \in Deliveries |-> "none"]
    /\ clock = 0
    /\ rejections = 0
    /\ subscriptions = InitialSubscriptions
    /\ documentData = <<>>
    /\ documents = <<>>
    /\ recipients = <<>>
    /\ fields = <<>>
    /\ signatures = <<>>

\* new Date(): time does not run backwards.
ClockReadings == { t \in clock..(clock + 1) : t <= MaxClock }

\* new Date() of lines 101 and 234: the run goes on with the locals l and
\* the reading as `now`.
ReadNow(d, l) ==
    \E t \in ClockReadings :
        /\ clock' = t
        /\ local' = [local EXCEPT ![d] = [l EXCEPT !.now = t]]

Respond(d, code, message) ==
    /\ pc' = [pc EXCEPT ![d] = "done"]
    /\ resp' = [resp EXCEPT ![d] = Json(code, message)]

Throw(d, error) ==
    /\ pc' = [pc EXCEPT ![d] = "thrown"]
    /\ resp' = [resp EXCEPT ![d] = Thrown(error)]

Goto(d, label) ==
    /\ pc' = [pc EXCEPT ![d] = label]
    /\ UNCHANGED resp

Call(d, name) == trace' = [trace EXCEPT ![d] = Append(@, name)]

-----------------------------------------------------------------------------
(* handleCustomerSubscriptionUpdated *)

\* A match that lacks the 'past_due' arm.
MatchStatusWithoutPastDue(status) ==
    CASE status = "active" -> "ACTIVE"
      [] OTHER -> "INACTIVE"

\* match(subscription.status).with(...).otherwise(...)
MatchStatus(status) ==
    CASE status = "active" -> "ACTIVE"
      [] status = "past_due" -> "PAST_DUE"
      [] OTHER -> "INACTIVE"

\* typeof subscription.customer === 'string' ? ... : subscription.customer.id
CustomerIdOf(customer) ==
    IF customer.kind = "string" THEN customer.string ELSE customer.id

\* The `data` of prisma.subscription.update; t is the new Date() of line 234.
SubscriptionData(subscription, l, t) ==
    [planId |-> l.planId, status |-> l.status,
     cancelAtPeriodEnd |-> subscription.cancel_at_period_end,
     periodEnd |-> subscription.current_period_end * 1000,
     updatedAt |-> t]

\* An updateMany without the where clause: every row takes the data.
SubscriptionUpdateRowsAll(rows, customerId, data) ==
    [c \in DOMAIN rows |-> data]

\* An update that extends the stored period instead of replacing it.
SubscriptionUpdateRowsExtending(rows, customerId, data) ==
    [rows EXCEPT ![customerId] =
        [data EXCEPT !.periodEnd = rows[customerId].periodEnd + data.periodEnd]]

\* prisma.subscription.update({where: {customerId}, data}) on the table
\* `rows`: the row is replaced field by field; no row is inserted.
SubscriptionUpdateRows(rows, customerId, data) ==
    [rows EXCEPT ![customerId] = data]

\* Lines 215-223 and the arguments of the update: what the call is made with.
SubscriptionLocals(subscription) ==
    [NoLocal EXCEPT
        !.customerId = CustomerIdOf(subscription.customer),
        !.planId = subscription.plan,
        !.status = MatchStatus(subscription.status)]

\* An update guarded by a comparison with the stored row: an event whose
\* period ends before the stored one is acknowledged and not applied.
SubscriptionUpdateIfNewer(d) ==
    /\ pc[d] = "subscription.update"
    /\ Call(d, "subscription.update")
    /\ LET customerId == local[d].customerId
           data == SubscriptionData(event[d].object, local[d], local[d].now)
       IN  IF customerId \in DOMAIN subscriptions
           THEN /\ subscriptions' =
                      IF data.periodEnd >= subscriptions[customerId].periodEnd
                      THEN SubscriptionUpdateRows(subscriptions, customerId,
                                                  data)
                      ELSE subscriptions
                /\ Respond(d, 200, "Webhook received")
           ELSE /\ Throw(d, "RecordNotFound")
                /\ UNCHANGED subscriptions
    /\ UNCHANGED <<header, event, local, sigWrite, docWrite, clock,
                   rejections, provisioned>>

\* prisma.subscription.upsert in the place of update: a missing row is
\* inserted.
SubscriptionUpsert(d) ==
    /\ pc[d] = "subscription.update"
    /\ Call(d, "subscription.update")
    /\ subscriptions' =
          (local[d].customerId :>
              SubscriptionData(event[d].object, local[d], local[d].now))
          @@ subscriptions
    /\ Respond(d, 200, "Webhook received")
    /\ UNCHANGED <<header, event, local, sigWrite, docWrite, clock,
                   rejections, provisioned>>

\* prisma.subscription.update(...): the call is made; it rejects with
\* RecordNotFound when no row has the customerId.
SubscriptionUpdate(d) ==
    /\ pc[d] = "subscription.update"
    /\ Call(d, "subscription.update")
    /\ LET customerId == local[d].customerId IN
       IF customerId \in DOMAIN subscriptions
       THEN /\ subscriptions' =
                  SubscriptionUpdateRows(subscriptions, customerId,
                      SubscriptionData(event[d].object, local[d],
                                       local[d].now))
            /\ Respond(d, 200, "Webhook received")
       ELSE /\ Throw(d, "RecordNotFound")
            /\ UNCHANGED subscriptions
    /\ UNCHANGED <<header, event, local, sigWrite, docWrite, clock,
                   rejections, provisioned>>

-----------------------------------------------------------------------------
(* handler *)

\* A dispatch that provisions for every checkout that carries metadata,
\* whatever its source.
DispatchAnySource(d, ev) ==
    IF ev.type = "customer.subscription.updated"
    THEN IF ev.object.plan = Null
         THEN /\ Throw(d, "TypeError")
              /\ UNCHANGED <<local, clock>>
         ELSE /\ Goto(d, "subscription.update")
              /\ ReadNow(d, SubscriptionLocals(ev.object))
    ELSE IF ev.type = "checkout.session.completed"
    THEN IF ev.metadata.present
         THEN /\ Goto(d, "user.findFirst")
              /\ UNCHANGED <<local, clock>>
         ELSE /\ Respond(d, 200, "Webhook received")
              /\ UNCHANGED <<local, clock>>
    ELSE /\ Respond(d, 400, "Unhandled webhook event")
         /\ UNCHANGED <<local, clock>>

\* A dispatch on the prefix of the type tag instead of the whole tag.
DispatchOnPrefix(d, ev) ==
    IF ev.type \in {"customer.subscription.updated",
                    "customer.subscription.deleted"}
    THEN IF ev.object.plan = Null
         THEN /\ Throw(d, "TypeError")
              /\ UNCHANGED <<local, clock>>
         ELSE /\ Goto(d, "subscription.update")
              /\ ReadNow(d, SubscriptionLocals(ev.object))
    ELSE IF ev.type \in {"checkout.session.completed",
                         "checkout.session.expired"}
    THEN IF ev.metadata.present /\ ev.metadata.source = "landing"
         THEN /\ Goto(d, "user.findFirst")
              /\ UNCHANGED <<local, clock>>
         ELSE /\ Respond(d, 200, "Webhook received")
              /\ UNCHANGED <<local, clock>>
    ELSE /\ Respond(d, 400, "Unhandled webhook event")
         /\ UNCHANGED <<local, clock>>

\* Lines 59-76: the branch the verified event takes, up to its first await.
Dispatch(d, ev) ==
    IF ev.type = "customer.subscription.updated"
    THEN IF ev.object.plan = Null
         THEN /\ Throw(d, "TypeError")
              /\ UNCHANGED <<local, clock>>
         ELSE /\ Goto(d, "subscription.update")
              /\ ReadNow(d, SubscriptionLocals(ev.object))
    ELSE IF ev.type = "checkout.session.completed"
    THEN IF ev.metadata.present /\ ev.metadata.source = "landing"
         THEN /\ Goto(d, "user.findFirst")
              /\ UNCHANGED <<local, clock>>
         ELSE /\ Respond(d, 200, "Webhook received")
              /\ UNCHANGED <<local, clock>>
    ELSE /\ Respond(d, 400, "Unhandled webhook event")
         /\ UNCHANGED <<local, clock>>

\* Lines 37-76: a delivery arrives with a header and a body of `events`.
Receive(d, events) ==
    /\ pc[d] = "idle"
    /\ \A e \in Deliveries : e < d => pc[e] # "idle"
    /\ \E hdr \in Headers :
        /\ header' = [header EXCEPT ![d] = hdr]
        /\ IF SigOf(hdr) = ""
           THEN /\ Respond(d, 400, "No signature found in request")
                /\ UNCHANGED <<event, local, clock>>
           ELSE IF ~ConstructEventOk(SigOf(hdr))
           THEN /\ Throw(d, "StripeSignatureVerificationError")
                /\ UNCHANGED <<event, local, clock>>
           ELSE \E ev \in events :
                  /\ event' = [event EXCEPT ![d] = ev]
                  /\ Dispatch(d, ev)
    /\ UNCHANGED <<trace, sigWrite, docWrite, rejections, db>>

-----------------------------------------------------------------------------
(* The provisioning of the supporter pledge, lines 77-196 *)

\* insertImageInPDF(pdfAsBase64, image, positionX, positionY, page): the
\* document with the image drawn on it.
insertImageInPDF(pdfAsBase64, image, positionX, positionY, page) ==
    [pdfAsBase64 EXCEPT !.marks =
        Append(@, [kind |-> "image", value |-> image, x |-> positionX,
                   y |-> positionY, page |-> page])]

\* insertTextInPDF(pdfAsBase64, text, positionX, positionY, page): the
\* document with the text drawn on it.
insertTextInPDF(pdfAsBase64, text, positionX, positionY, page) ==
    [pdfAsBase64 EXCEPT !.marks =
        Append(@, [kind |-> "text", value |-> text, x |-> positionX,
                   y |-> positionY, page |-> page])]

\* A lookup behind an idempotency check: a checkout another delivery has
\* already created a document for is acknowledged and not provisioned again.
UserFindFirstOnce(d) ==
    IF \E e \in Deliveries \ {d} :
            event[e] = event[d] /\ local[e].documentId # 0
    THEN /\ pc[d] = "user.findFirst"
         /\ Respond(d, 200, "Webhook received")
         /\ UNCHANGED <<header, event, local, trace, sigWrite, docWrite,
                        clock, rejections, db>>
    ELSE /\ pc[d] = "user.findFirst"
         /\ Call(d, "user.findFirst")
         /\ LET id == Number(event[d].client_reference_id)
                meta == event[d].metadata
            IN  IF id \notin DOMAIN Users
                THEN /\ Respond(d, 500, "User not found")
                     /\ UNCHANGED <<local, clock>>
                ELSE LET user == Users[id]
                         l == [local[d] EXCEPT
                                 !.userId = user.id,
                                 !.userName = user.name,
                                 !.userEmail = user.email,
                                 !.signatureText =
                                     OrElse(meta.signatureText, user.name),
                                 !.signatureDataUrl = ""]
                     IN  IF Truthy(meta.signatureDataUrl)
                         THEN /\ Goto(d, "redis.get")
                              /\ local' = [local EXCEPT ![d] = l]
                              /\ UNCHANGED clock
                         ELSE /\ Goto(d, "documentData.create")
                              /\ ReadNow(d, l)
         /\ UNCHANGED <<header, event, sigWrite, docWrite, rejections, db>>

\* A lookup that provisions for a guest when no user has the id.
UserFindFirstOrGuest(d) ==
    /\ pc[d] = "user.findFirst"
    /\ Call(d, "user.findFirst")
    /\ LET id == Number(event[d].client_reference_id)
           meta == event[d].metadata
           user == IF id \in DOMAIN Users
                   THEN Users[id]
                   ELSE [id |-> 0, name |-> Null, email |-> Null]
           l == [local[d] EXCEPT
                   !.userId = user.id,
                   !.userName = user.name,
                   !.userEmail = user.email,
                   !.signatureText = OrElse(meta.signatureText, user.name),
                   !.signatureDataUrl = ""]
       IN  IF Truthy(meta.signatureDataUrl)
           THEN /\ Goto(d, "redis.get")
                /\ local' = [local EXCEPT ![d] = l]
                /\ UNCHANGED clock
           ELSE /\ Goto(d, "documentData.create")
                /\ ReadNow(d, l)
    /\ UNCHANGED <<header, event, sigWrite, docWrite, rejections, db>>

\* Lines 77-90: the user of the session, and the text to sign with.
UserFindFirst(d) ==
    /\ pc[d] = "user.findFirst"
    /\ Call(d, "user.findFirst")
    /\ LET id == Number(event[d].client_reference_id)
           meta == event[d].metadata
       IN  IF id \notin DOMAIN Users
           THEN /\ Respond(d, 500, "User not found")
                /\ UNCHANGED <<local, clock>>
           ELSE LET user == Users[id]
                    l == [local[d] EXCEPT
                            !.userId = user.id,
                            !.userName = user.name,
                            !.userEmail = user.email,
                            !.signatureText =
                                OrElse(meta.signatureText, user.name),
                            !.signatureDataUrl = ""]
                IN  IF Truthy(meta.signatureDataUrl)
                    THEN /\ Goto(d, "redis.get")
                         /\ local' = [local EXCEPT ![d] = l]
                         /\ UNCHANGED clock
                    ELSE /\ Goto(d, "documentData.create")
                         /\ ReadNow(d, l)
    /\ UNCHANGED <<header, event, sigWrite, docWrite, rejections, db>>

\* Lines 93-99: the uploaded signature image, if the cache still has it.
RedisGet(d) ==
    /\ pc[d] = "redis.get"
    /\ Call(d, "redis.get")
    /\ LET result ==
               RedisGetValue("signature:" \o event[d].metadata.signatureDataUrl)
           l == IF Truthy(result)
                THEN [local[d] EXCEPT !.signatureDataUrl = result]
                ELSE local[d]
       IN  ReadNow(d, l)
    /\ Goto(d, "documentData.create")
    /\ UNCHANGED <<header, event, sigWrite, docWrite, rejections, db>>

\* A create whose rejection is caught and swallowed: nothing is written and
\* the run goes on.
DocumentDataCreateSwallowed(d) ==
    /\ pc[d] = "documentData.create"
    /\ Call(d, "documentData.create")
    /\ Goto(d, "document.create")
    /\ UNCHANGED <<header, event, local, sigWrite, docWrite, clock,
                   rejections, db>>

\* Lines 103-111.
DocumentDataCreate(d) ==
    /\ pc[d] = "documentData.create"
    /\ Call(d, "documentData.create")
    /\ documentData' =
          Append(documentData,
                 [type |-> "BYTES_64", data |-> Bytes64,
                  initialData |-> Bytes64])
    /\ local' = [local EXCEPT ![d].documentDataId = Len(documentData) + 1]
    /\ Goto(d, "document.create")
    /\ UNCHANGED <<header, event, sigWrite, docWrite, clock, rejections,
                   subscriptions,
                   documents, recipients, fields, signatures>>

\* Lines 113-129: the document, returned with its documentData.
DocumentCreate(d) ==
    /\ pc[d] = "document.create"
    /\ Call(d, "document.create")
    /\ documents' =
          Append(documents,
                 [title |-> "Documenso Supporter Pledge.pdf",
                  status |-> "COMPLETED", userId |-> local[d].userId,
                  documentDataId |-> local[d].documentDataId])
    /\ IF local[d].documentDataId \in DOMAIN documentData
       THEN /\ local' = [local EXCEPT
                    ![d].documentId = Len(documents) + 1,
                    ![d].data = documentData[local[d].documentDataId].data]
            /\ Goto(d, "recipient.create")
       ELSE /\ local' = [local EXCEPT ![d].documentId = Len(documents) + 1]
            /\ Throw(d, "Error")
    /\ UNCHANGED <<header, event, sigWrite, docWrite, clock, rejections,
                   subscriptions,
                   documentData, recipients, fields, signatures>>

\* Lines 131-142.
RecipientCreate(d) ==
    /\ pc[d] = "recipient.create"
    /\ Call(d, "recipient.create")
    /\ recipients' =
             Append(recipients,
                    [name |-> Coalesce(local[d].userName, ""),
                     email |-> local[d].userEmail,
                     token |-> RandomToken(Len(recipients) + 1),
                     signedAt |-> local[d].now, readStatus |-> "OPENED",
                     sendStatus |-> "SENT", signingStatus |-> "SIGNED",
                     documentId |-> local[d].documentId])
    /\ local' = [local EXCEPT ![d].recipientId = Len(recipients) + 1]
    /\ Goto(d, "field.create")
    /\ UNCHANGED <<header, event, sigWrite, docWrite, clock, rejections,
                   subscriptions,
                   documentData, documents, fields, signatures>>

\* A field created for the recipient created last, whichever run created
\* it.
FieldCreateForLatestRecipient(d) ==
    /\ pc[d] = "field.create"
    /\ Call(d, "field.create")
    /\ LET field == [documentId |-> local[d].documentId,
                     recipientId |-> Len(recipients),
                     type |-> "SIGNATURE", page |-> 0, positionX |-> 77,
                     positionY |-> 638, inserted |-> FALSE,
                     customText |-> ""]
       IN  /\ fields' = Append(fields, field)
           /\ local' = [local EXCEPT
                   ![d].fieldId = Len(fields) + 1,
                   ![d].field = [page |-> field.page,
                                 positionX |-> field.positionX,
                                 positionY |-> field.positionY]]
    /\ Goto(d, "insertInPDF")
    /\ UNCHANGED <<header, event, sigWrite, docWrite, clock, rejections,
                   subscriptions,
                   documentData, documents, recipients, signatures>>

\* Lines 144-155.
FieldCreate(d) ==
    /\ pc[d] = "field.create"
    /\ Call(d, "field.create")
    /\ LET field == [documentId |-> local[d].documentId,
                     recipientId |-> local[d].recipientId,
                     type |-> "SIGNATURE", page |-> 0, positionX |-> 77,
                     positionY |-> 638, inserted |-> FALSE,
                     customText |-> ""]
       IN  /\ fields' = Append(fields, field)
           /\ local' = [local EXCEPT
                   ![d].fieldId = Len(fields) + 1,
                   ![d].field = [page |-> field.page,
                                 positionX |-> field.positionX,
                                 positionY |-> field.positionY]]
    /\ Goto(d, "insertInPDF")
    /\ UNCHANGED <<header, event, sigWrite, docWrite, clock, rejections,
                   subscriptions,
                   documentData, documents, recipients, signatures>>

\* Lines 157-173: documentData.data with the signer's mark drawn on it.
SignedData(l) ==
    IF Truthy(l.signatureDataUrl)
    THEN insertImageInPDF(l.data, l.signatureDataUrl, l.field.positionX,
                          l.field.positionY, l.field.page)
    ELSE insertTextInPDF(l.data, Coalesce(l.signatureText, ""),
                         l.field.positionX, l.field.positionY, l.field.page)

\* Lines 157-175: the mark is drawn, then Promise.all starts both writes.
InsertInPDF(d) ==
    /\ pc[d] = "insertInPDF"
    /\ local' = [local EXCEPT ![d].data = SignedData(local[d])]
    /\ sigWrite' = [sigWrite EXCEPT ![d] = "pending"]
    /\ docWrite' = [docWrite EXCEPT ![d] = "pending"]
    /\ Goto(d, "Promise.all")
    /\ UNCHANGED <<header, event, trace, clock, rejections, db>>

\* A signature that keeps the typed text beside the image.
SignatureDataWithBoth(l) ==
    [fieldId |-> l.fieldId, recipientId |-> l.recipientId,
     signatureImageAsBase64 |->
        IF Truthy(l.signatureDataUrl) THEN l.signatureDataUrl ELSE Null,
     typedSignature |-> l.signatureText]

\* The `data` of prisma.signature.create, lines 177-182.
SignatureData(l) ==
    [fieldId |-> l.fieldId, recipientId |-> l.recipientId,
     signatureImageAsBase64 |->
        IF Truthy(l.signatureDataUrl) THEN l.signatureDataUrl ELSE Null,
     typedSignature |->
        IF Truthy(l.signatureDataUrl) THEN "" ELSE l.signatureText]

\* Lines 176-183: the first write of Promise.all is applied.
SignatureCreate(d) ==
    /\ sigWrite[d] = "pending"
    /\ Call(d, "signature.create")
    /\ signatures' = Append(signatures, SignatureData(local[d]))
    /\ sigWrite' = [sigWrite EXCEPT ![d] = "ok"]
    /\ UNCHANGED <<pc, header, event, local, resp, docWrite, clock,
                   rejections, subscriptions, documentData, documents, recipients, fields>>

\* An update that overwrites the kept template as well.
DocumentDataUpdatedWithInitial(rows, documentDataId, data) ==
    [rows EXCEPT ![documentDataId].data = data,
                 ![documentDataId].initialData = data]

\* The rows of documentData after prisma.document.update({where: {id},
\* data: {documentData: {update: {data}}}}).
DocumentDataUpdated(rows, documentDataId, data) ==
    [rows EXCEPT ![documentDataId].data = data]

\* A content update addressed to the DocumentData created last, whichever
\* run created it.
DocumentUpdateOfLatest(d) ==
    /\ docWrite[d] = "pending"
    /\ Call(d, "document.update")
    /\ documentData' =
          DocumentDataUpdated(documentData, Len(documentData), local[d].data)
    /\ docWrite' = [docWrite EXCEPT ![d] = "ok"]
    /\ UNCHANGED <<pc, header, event, local, resp, sigWrite, clock,
                   rejections, subscriptions, documents, recipients, fields, signatures>>

\* Lines 184-195: the second write of Promise.all is applied.
DocumentUpdate(d) ==
    /\ docWrite[d] = "pending"
    /\ Call(d, "document.update")
    /\ documentData' =
          DocumentDataUpdated(documentData,
              documents[local[d].documentId].documentDataId, local[d].data)
    /\ docWrite' = [docWrite EXCEPT ![d] = "ok"]
    /\ UNCHANGED <<pc, header, event, local, resp, sigWrite, clock,
                   rejections, subscriptions, documents, recipients, fields, signatures>>

\* A Promise.all whose rejection is compensated: the document of the
\* delivery is taken back to DRAFT before the error leaves the handler.
PromiseAllCompensating(d) ==
    /\ pc[d] = "Promise.all"
    /\ IF "failed" \in {sigWrite[d], docWrite[d]}
       THEN /\ Throw(d, "Rejected")
            /\ documents' =
                  [documents EXCEPT ![local[d].documentId].status = "DRAFT"]
       ELSE /\ sigWrite[d] = "ok"
            /\ docWrite[d] = "ok"
            /\ Respond(d, 200, "Webhook received")
            /\ UNCHANGED documents
    /\ UNCHANGED <<header, event, local, trace, sigWrite, docWrite, clock,
                   rejections, subscriptions, documentData, recipients,
                   fields, signatures>>

\* Promise.allSettled in the place of Promise.all: the delivery is
\* acknowledged when both writes have settled, rejected or not.
PromiseAllSettled(d) ==
    /\ pc[d] = "Promise.all"
    /\ sigWrite[d] \in {"ok", "failed"}
    /\ docWrite[d] \in {"ok", "failed"}
    /\ Respond(d, 200, "Webhook received")
    /\ UNCHANGED <<header, event, local, trace, sigWrite, docWrite, clock,
                   rejections, db>>

\* Promise.race in the place of Promise.all: the delivery is acknowledged
\* when the first of the two writes has resolved.
PromiseRace(d) ==
    /\ pc[d] = "Promise.all"
    /\ IF "failed" \in {sigWrite[d], docWrite[d]}
       THEN Throw(d, "Rejected")
       ELSE /\ "ok" \in {sigWrite[d], docWrite[d]}
            /\ Respond(d, 200, "Webhook received")
    /\ UNCHANGED <<header, event, local, trace, sigWrite, docWrite, clock,
                   rejections, db>>

\* Lines 175-202: Promise.all rejects with the first rejection, and resolves
\* when both writes have; then the delivery is acknowledged.
PromiseAll(d) ==
    /\ pc[d] = "Promise.all"
    /\ IF "failed" \in {sigWrite[d], docWrite[d]}
       THEN Throw(d, "Rejected")
       ELSE /\ sigWrite[d] = "ok"
            /\ docWrite[d] = "ok"
            /\ Respond(d, 200, "Webhook received")
    /\ UNCHANGED <<header, event, local, trace, sigWrite, docWrite, clock,
                   rejections, db>>

-----------------------------------------------------------------------------
(* Faults: an awaited call rejects (database, cache or PDF library down) *)

Awaited ==
    {"subscription.update", "user.findFirst", "redis.get",
     "documentData.create", "document.create", "recipient.create",
     "field.create", "insertInPDF"}

\* One more call rejects.
Rejection ==
    /\ rejections < MaxRejections
    /\ rejections' = rejections + 1

\* No await of the handler is inside a try: the rejection leaves it.
Reject(d) ==
    /\ pc[d] \in Awaited
    /\ Rejection
    /\ IF pc[d] = "insertInPDF" THEN UNCHANGED trace ELSE Call(d, pc[d])
    /\ Throw(d, "Rejected")
    /\ UNCHANGED <<header, event, local, sigWrite, docWrite, clock, db>>

SignatureCreateRejects(d) ==
    /\ sigWrite[d] = "pending"
    /\ Rejection
    /\ Call(d, "signature.create")
    /\ sigWrite' = [sigWrite EXCEPT ![d] = "failed"]
    /\ UNCHANGED <<pc, header, event, local, resp, docWrite, clock, db>>

DocumentUpdateRejects(d) ==
    /\ docWrite[d] = "pending"
    /\ Rejection
    /\ Call(d, "document.update")
    /\ docWrite' = [docWrite EXCEPT ![d] = "failed"]
    /\ UNCHANGED <<pc, header, event, local, resp, sigWrite, clock, db>>

-----------------------------------------------------------------------------
(* Specifications *)

CheckoutEvents == LandingEvents \cup NonLandingEvents

\* One event of each kind, for the runs that interleave every path.
MixedEvents ==
    { e \in SubscriptionEvents :
        /\ e.object.customer.kind = "string"
        /\ e.object.customer.string \in {"cus_1", "cus_404"}
        /\ e.object.plan = "plan_b" }
    \cup { e \in LandingEvents :
            /\ e.client_reference_id \in {"1", "9"}
            /\ e.metadata.signatureText = Null
            /\ e.metadata.signatureDataUrl = "sig_hit" }
    \cup { e \in LandingEvents :
            /\ e.client_reference_id = "2"
            /\ e.metadata.signatureText = Null
            /\ e.metadata.signatureDataUrl = Null }
    \cup { e \in LandingEvents :
            /\ e.client_reference_id = "1"
            /\ e.metadata.signatureText = "Ann B."
            /\ e.metadata.signatureDataUrl = "sig_miss" }
    \cup { e \in NonLandingEvents : ~e.metadata.present }
    \cup { e \in OtherEvents : e.type = "invoice.paid" }

Provision(d) ==
    \/ UserFindFirst(d)
    \/ RedisGet(d)
    \/ DocumentDataCreate(d)
    \/ DocumentCreate(d)
    \/ RecipientCreate(d)
    \/ FieldCreate(d)
    \/ InsertInPDF(d)
    \/ SignatureCreate(d)
    \/ DocumentUpdate(d)
    \/ PromiseAll(d)

Faults(d) ==
    \/ Reject(d)
    \/ SignatureCreateRejects(d)
    \/ DocumentUpdateRejects(d)

\* Deliveries of every kind, interleaved.
Next ==
    \E d \in Deliveries :
        \/ Receive(d, MixedEvents)
        \/ SubscriptionUpdate(d)
        \/ Provision(d)
        \/ Faults(d)

Spec == Init /\ [][Next]_vars

\* Deliveries of customer.subscription.updated, interleaved.
NextSubscription ==
    \E d \in Deliveries :
        \/ Receive(d, SubscriptionEvents \cup OtherEvents)
        \/ SubscriptionUpdate(d)
        \/ Reject(d)

SpecSubscription == Init /\ [][NextSubscription]_vars

\* A delivery has run to its end, its writes included.
Settled(d) ==
    /\ pc[d] \in {"done", "thrown"}
    /\ sigWrite[d] # "pending"
    /\ docWrite[d] # "pending"

\* A delivery that arrives when the deliveries before it are over.
ReceiveInTurn(d, events) ==
    /\ \A e \in Deliveries : e < d => Settled(e)
    /\ Receive(d, events)

\* Deliveries with every checkout payload, one after the other, no call
\* rejecting.
NextInTurn ==
    \E d \in Deliveries :
        \/ ReceiveInTurn(d, CheckoutEvents \cup OtherEvents \cup MixedEvents)
        \/ SubscriptionUpdate(d)
        \/ Provision(d)

SpecInTurn == Init /\ [][NextInTurn]_vars

-----------------------------------------------------------------------------
(* What the claims speak of *)

IsSubscriptionUpdated(ev) == ev.type = "customer.subscription.updated"

IsCheckout(ev) == ev.type = "checkout.session.completed"

IsLanding(ev) ==
    IsCheckout(ev) /\ ev.metadata.present /\ ev.metadata.source = "landing"

\* The delivery was verified: constructEvent returned its event.
Verified(d) == event[d].type # Null

Answered200(d) == pc[d] = "done" /\ resp[d].status = 200

\* The four fields of a Subscription row a replay must preserve.
Terms(row) ==
    <<row.planId, row.status, row.cancelAtPeriodEnd, row.periodEnd>>

\* The Signature rows written for the field of delivery d.
SignaturesOf(d) ==
    { i \in DOMAIN signatures :
        local[d].fieldId # 0 /\ signatures[i].fieldId = local[d].fieldId }

\* The cache holds an image for the reference of the delivery's metadata.
ImageResolves(ev) ==
    /\ Truthy(ev.metadata.signatureDataUrl)
    /\ ("signature:" \o ev.metadata.signatureDataUrl) \in DOMAIN RedisStore
    /\ RedisStore["signature:" \o ev.metadata.signatureDataUrl] # ""

-----------------------------------------------------------------------------
(* Claims *)

\* C1: a delivery whose signature header is missing, empty, not a single
\* string or fails verification is answered with HTTP 400 and makes no call
\* on the database or the cache.
C1_UnverifiedAnswered400 ==
    \A d \in Deliveries :
        (pc[d] # "idle" /\ ~ConstructEventOk(SigOf(header[d]))) =>
            /\ resp[d].status = 400
            /\ trace[d] = <<>>

\* C2: every step of a customer.subscription.updated delivery that applies
\* the update stores ACTIVE for "active", PAST_DUE for "past_due" and
\* INACTIVE for every other status; and the delivery throws only for a
\* reason other than the status (no plan, no row, a rejected call).
C2_StatusMapping ==
    [][\A d \in Deliveries :
        (IsSubscriptionUpdated(event'[d]) /\ pc'[d] # pc[d]) =>
            LET o == event'[d].object
                id == CustomerIdOf(o.customer)
            IN  /\ pc'[d] = "done" =>
                    /\ o.status = "active" =>
                            subscriptions'[id].status = "ACTIVE"
                    /\ o.status = "past_due" =>
                            subscriptions'[id].status = "PAST_DUE"
                    /\ o.status \notin {"active", "past_due"} =>
                            subscriptions'[id].status = "INACTIVE"
                /\ pc'[d] = "thrown" =>
                    \/ o.plan = Null
                    \/ id \notin DOMAIN subscriptions
                    \/ resp'[d].message = "Rejected"
      ]_vars

\* C2 witness: an update with the empty status was applied as INACTIVE, one
\* with "past_due" as PAST_DUE.
C2_Witness ==
    /\ \E d \in Deliveries :
        /\ Answered200(d)
        /\ IsSubscriptionUpdated(event[d])
        /\ event[d].object.status = ""
        /\ subscriptions[local[d].customerId].status = "INACTIVE"
    /\ \E d \in Deliveries :
        /\ Answered200(d)
        /\ IsSubscriptionUpdated(event[d])
        /\ event[d].object.status = "past_due"
        /\ event[d].object.customer.kind = "object"
        /\ subscriptions[local[d].customerId].status = "PAST_DUE"

\* The update of delivery d was applied.
Applied(d) == IsSubscriptionUpdated(event[d]) /\ Answered200(d)

\* C3: when every update applied so far to a customer's row carried the
\* very event a delivery carries (the delivery is a replay), applying it
\* leaves planId, status, cancelAtPeriodEnd and periodEnd of the row as they
\* were, and every other row untouched.
C3_ReplayIdempotent ==
    [][\A d \in Deliveries :
        LET id == local[d].customerId
            earlier == { e \in Deliveries \ {d} :
                            Applied(e) /\ local[e].customerId = id }
        IN  ( /\ pc[d] = "subscription.update"
              /\ pc'[d] = "done"
              /\ earlier # {}
              /\ \A e \in earlier : event[e] = event[d] ) =>
                /\ Terms(subscriptions'[id]) = Terms(subscriptions[id])
                /\ \A c \in DOMAIN subscriptions \ {id} :
                        subscriptions'[c] = subscriptions[c]
      ]_vars

\* C3 witness: the same event was applied twice, the second time later than
\* the first.
C3_Witness ==
    \E d, e \in Deliveries :
        /\ d # e
        /\ Applied(d)
        /\ Applied(e)
        /\ event[d] = event[e]
        /\ subscriptions[local[d].customerId].updatedAt = 1
        /\ Terms(subscriptions[local[d].customerId]) =
              <<event[d].object.plan, local[d].status,
                event[d].object.cancel_at_period_end,
                event[d].object.current_period_end * 1000>>

\* C4: no step of a customer.subscription.updated delivery for a customer
\* without a row answers 200, changes a row or inserts one; the update
\* throws.
C4_UnknownCustomerFails ==
    [][\A d \in Deliveries :
        ( /\ IsSubscriptionUpdated(event'[d])
          /\ CustomerIdOf(event'[d].object.customer) \notin
                DOMAIN subscriptions
          /\ pc'[d] # pc[d] ) =>
            /\ subscriptions' = subscriptions
            /\ resp'[d].status # 200
            /\ pc'[d] \in {"subscription.update", "thrown"}
            /\ pc[d] = "subscription.update" => pc'[d] = "thrown"
      ]_vars

\* C4 witness: the update for an unknown customer threw RecordNotFound.
C4_Witness ==
    \E d \in Deliveries :
        /\ pc[d] = "thrown"
        /\ resp[d].message = "RecordNotFound"
        /\ local[d].customerId \notin DOMAIN subscriptions
        /\ trace[d] = <<"subscription.update">>
        /\ subscriptions = InitialSubscriptions


\* C5: the step that receives a verified checkout.session.completed event
\* whose metadata.source is not "landing" (absent metadata included) answers
\* 200, makes no call on the database or the cache and leaves every table
\* as it was.
C5_NonLandingIsNoOp ==
    [][\A d \in Deliveries :
        ( /\ pc[d] = "idle"
          /\ pc'[d] # "idle"
          /\ IsCheckout(event'[d])
          /\ ~(event'[d].metadata.present
               /\ event'[d].metadata.source = "landing") ) =>
            /\ pc'[d] = "done"
            /\ resp'[d] = [status |-> 200, message |-> "Webhook received"]
            /\ trace'[d] = <<>>
            /\ db' = db
      ]_vars

\* C5 witness: checkouts without metadata and with the source "Landing"
\* were acknowledged, and no record exists.
C5_Witness ==
    /\ \E d \in Deliveries :
        /\ Answered200(d)
        /\ IsCheckout(event[d])
        /\ ~event[d].metadata.present
    /\ \E d \in Deliveries :
        /\ Answered200(d)
        /\ IsCheckout(event[d])
        /\ event[d].metadata.source = "Landing"
    /\ documentData = <<>>
    /\ documents = <<>>
    /\ recipients = <<>>
    /\ fields = <<>>
    /\ signatures = <<>>

\* C6: for a landing checkout whose signature image resolves in the cache,
\* once its signature is written there is exactly one Signature for its
\* field, holding the cached image and no typed text; and once the delivery
\* is acknowledged its DocumentData.data differs from the template.
C6_ImageSignature ==
    \A d \in Deliveries :
        (IsLanding(event[d]) /\ ImageResolves(event[d])) =>
            /\ sigWrite[d] = "ok" =>
                /\ Cardinality(SignaturesOf(d)) = 1
                /\ \A i \in SignaturesOf(d) :
                    /\ signatures[i].signatureImageAsBase64 =
                          RedisStore["signature:" \o
                                     event[d].metadata.signatureDataUrl]
                    /\ signatures[i].signatureImageAsBase64 \notin {Null, ""}
                    /\ signatures[i].typedSignature \in {Null, ""}
            /\ Answered200(d) =>
                /\ sigWrite[d] = "ok"
                /\ documentData[local[d].documentDataId].data # Bytes64
                /\ documentData[local[d].documentDataId].data #
                      documentData[local[d].documentDataId].initialData

\* C6 witness: an acknowledged landing checkout with a resolved image, for
\* a session that also carried a signature text.
C6_Witness ==
    \E d \in Deliveries :
        /\ IsLanding(event[d])
        /\ ImageResolves(event[d])
        /\ event[d].metadata.signatureText = "Ann B."
        /\ Answered200(d)
        /\ SignaturesOf(d) # {}

\* The landing checkout has no image to sign with: no reference, or a
\* reference the cache does not resolve.
NoImage(ev) == IsLanding(ev) /\ ~ImageResolves(ev)

\* The text the claim expects in the signature: metadata.signatureText when
\* provided, otherwise the user's name.
ExpectedText(d) ==
    IF Truthy(event[d].metadata.signatureText)
    THEN event[d].metadata.signatureText
    ELSE local[d].userName

\* C7: a landing checkout without a resolvable image does not throw, and
\* the Signature it writes has no image and a non-empty typed text, the
\* metadata's signatureText when provided and the user's name otherwise.
C7_TypedSignature ==
    \A d \in Deliveries :
        NoImage(event[d]) =>
            /\ pc[d] # "thrown"
            /\ \A i \in SignaturesOf(d) :
                /\ signatures[i].signatureImageAsBase64 \in {Null, ""}
                /\ signatures[i].typedSignature = ExpectedText(d)
                /\ signatures[i].typedSignature \notin {Null, ""}

\* C8: every Signature has exactly one of signatureImageAsBase64 and
\* typedSignature populated.
C8_ExactlyOneArtifact ==
    \A i \in DOMAIN signatures :
        Truthy(signatures[i].signatureImageAsBase64) #
            Truthy(signatures[i].typedSignature)


\* C9: every DocumentData keeps the template bytes in initialData; and the
\* DocumentData of every landing delivery answered with 200 holds in data
\* the content the insertion step produced, which is not the template.
C9_InitialDataKeptDataSigned ==
    /\ \A i \in DOMAIN documentData : documentData[i].initialData = Bytes64
    /\ \A d \in Deliveries :
        (IsLanding(event[d]) /\ Answered200(d)) =>
            /\ local[d].documentDataId \in DOMAIN documentData
            /\ documentData[local[d].documentDataId].data = local[d].data
            /\ Len(documentData[local[d].documentDataId].data.marks) = 1
            /\ documentData[local[d].documentDataId].data # Bytes64

\* C9 witness: two interleaved landing deliveries were acknowledged, one
\* signed with an image and one with text.
C9_Witness ==
    \E d, e \in Deliveries :
        /\ d # e
        /\ IsLanding(event[d])
        /\ IsLanding(event[e])
        /\ Answered200(d)
        /\ Answered200(e)
        /\ documentData[local[d].documentDataId].data.marks[1].kind = "image"
        /\ documentData[local[e].documentDataId].data.marks[1].kind = "text"

\* The calls a run has made, as a set.
CallsOf(d) == { trace[d][i] : i \in DOMAIN trace[d] }

\* C10: a verified customer.subscription.updated event makes no call but
\* the subscription update, a verified checkout.session.completed event
\* never makes that call, and an event of any other type makes no call at
\* all and is answered 400 "Unhandled webhook event".
C10_ExactDispatch ==
    \A d \in Deliveries :
        (Verified(d) /\ pc[d] # "idle") =>
            /\ IsSubscriptionUpdated(event[d]) =>
                    CallsOf(d) \subseteq {"subscription.update"}
            /\ IsCheckout(event[d]) =>
                    "subscription.update" \notin CallsOf(d)
            /\ (~IsSubscriptionUpdated(event[d]) /\ ~IsCheckout(event[d])) =>
                    /\ trace[d] = <<>>
                    /\ pc[d] = "done"
                    /\ resp[d] = [status |-> 400,
                                  message |-> "Unhandled webhook event"]

\* C10 witness: a customer.subscription.deleted event was answered 400
\* after a customer.subscription.updated event had run the update.
C10_Witness ==
    \E d, e \in Deliveries :
        /\ event[d].type = "customer.subscription.deleted"
        /\ pc[d] = "done"
        /\ resp[d].status = 400
        /\ IsSubscriptionUpdated(event[e])
        /\ Answered200(e)
        /\ trace[e] = <<"subscription.update">>


\* The client_reference_id of the event is the id of no user.
UnknownUser(ev) == Number(ev.client_reference_id) \notin DOMAIN Users

\* C11: a landing checkout whose client_reference_id resolves to no user
\* makes the user lookup and nothing else: the step after the lookup answers
\* 500 "User not found", no step of the delivery creates a DocumentData,
\* Document, Recipient, Field or Signature, and the cache is never read.
C11_UnknownUserAnswered500 ==
    [][\A d \in Deliveries :
        ( /\ IsLanding(event'[d])
          /\ UnknownUser(event'[d])
          /\ pc'[d] # pc[d] ) =>
            /\ provisioned' = provisioned
            /\ "redis.get" \notin CallsOf(d)'
            /\ IF pc[d] = "idle"
               THEN /\ pc'[d] = "user.findFirst"
                    /\ trace'[d] = <<>>
               ELSE /\ pc[d] = "user.findFirst"
                    /\ pc'[d] = "done"
                    /\ resp'[d] = [status |-> 500,
                                   message |-> "User not found"]
                    /\ trace'[d] = <<"user.findFirst">>
      ]_vars

\* C11 witness: after a pledge was provisioned, a landing checkout without a
\* client_reference_id, carrying a cached image reference, was answered 500
\* and only the first pledge's records exist.
C11_Witness ==
    \E d \in Deliveries :
        /\ IsLanding(event[d])
        /\ event[d].client_reference_id = Null
        /\ event[d].metadata.signatureDataUrl = "sig_hit"
        /\ pc[d] = "done"
        /\ resp[d] = [status |-> 500, message |-> "User not found"]
        /\ trace[d] = <<"user.findFirst">>
        /\ Len(documents) = 1
        /\ Len(signatures) = 1


\* The five records of delivery d exist and reference one another.
RecordSetOf(d) ==
    LET l == local[d] IN
    /\ l.documentDataId \in DOMAIN documentData
    /\ l.documentId \in DOMAIN documents
    /\ documents[l.documentId].documentDataId = l.documentDataId
    /\ l.recipientId \in DOMAIN recipients
    /\ recipients[l.recipientId].documentId = l.documentId
    /\ l.fieldId \in DOMAIN fields
    /\ fields[l.fieldId].documentId = l.documentId
    /\ fields[l.fieldId].recipientId = l.recipientId
    /\ \E i \in DOMAIN signatures :
            /\ signatures[i].fieldId = l.fieldId
            /\ signatures[i].recipientId = l.recipientId

\* C12: a landing checkout is answered 200 only when both writes of
\* Promise.all have resolved: in every state where the delivery has answered
\* 200 both calls were made and succeeded, its DocumentData, Document,
\* Recipient, Field and Signature exist, and the DocumentData holds the
\* signed content.
C12_AcknowledgedAfterBothWrites ==
    \A d \in Deliveries :
        (IsLanding(event[d]) /\ Answered200(d)) =>
            /\ sigWrite[d] = "ok"
            /\ docWrite[d] = "ok"
            /\ {"signature.create", "document.update"} \subseteq CallsOf(d)
            /\ RecordSetOf(d)
            /\ documentData[local[d].documentDataId].data =
                  SignedData([local[d] EXCEPT !.data = Bytes64])

\* C12 witness: a landing checkout was acknowledged whose content update
\* was applied before its signature was created, while the other delivery's
\* signature creation had rejected.
C12_Witness ==
    \E d, e \in Deliveries :
        /\ IsLanding(event[d])
        /\ Answered200(d)
        /\ trace[d][Len(trace[d])] = "signature.create"
        /\ trace[d][Len(trace[d]) - 1] = "document.update"
        /\ sigWrite[e] = "failed"


\* A call of delivery d has failed: an error left the handler, or a write of
\* Promise.all rejected.
Failed(d) ==
    \/ pc[d] = "thrown"
    \/ sigWrite[d] = "failed"
    \/ docWrite[d] = "failed"

\* This step is a call of delivery d rejecting.
RejectsIn(d) ==
    /\ rejections' # rejections
    /\ \/ pc'[d] # pc[d]
       \/ sigWrite'[d] # sigWrite[d]
       \/ docWrite'[d] # docWrite[d]

\* The cache has no image under the reference of the landing checkout.
CacheMiss(ev) ==
    /\ IsLanding(ev)
    /\ Truthy(ev.metadata.signatureDataUrl)
    /\ ~ImageResolves(ev)

\* C13: a delivery one of whose calls failed (the subscription update, the
\* user lookup, the cache read, a create, the insertion, either write of
\* Promise.all) has failed for good and never answers 200; a delivery that
\* has answered 200 had no failed call; and a cache miss alone fails
\* nothing: a delivery with a cache miss throws only when a call rejects.
C13_FailureNeverAnswered200 ==
    [][\A d \in Deliveries :
        /\ RejectsIn(d) => Failed(d)'
        /\ Failed(d) => Failed(d)'
        /\ Failed(d)' => resp'[d].status # 200
        /\ Answered200(d)' => ~Failed(d)' /\ ~Failed(d)
        /\ (CacheMiss(event'[d]) /\ pc'[d] = "thrown") =>
                resp'[d].message = "Rejected"
      ]_vars

\* C13 witness: the content update of a delivery rejected after its
\* signature was created, and the handler threw; the other delivery, with a
\* cache miss on its image, was answered 200.
C13_Witness ==
    \E d, e \in Deliveries :
        /\ sigWrite[d] = "ok"
        /\ docWrite[d] = "failed"
        /\ pc[d] = "thrown"
        /\ resp[d] = Thrown("Rejected")
        /\ CacheMiss(event[e])
        /\ Answered200(e)


\* The creates of the provisioning, in the order of the source.
ProvisioningOrder ==
    <<"documentData.create", "document.create", "recipient.create",
      "field.create">>

\* The two writes of Promise.all, in the orders they can be applied in.
Step9Orders ==
    { <<"signature.create", "document.update">>,
      <<"document.update", "signature.create">> }

IsPrefix(s, t) == Len(s) <= Len(t) /\ s = SubSeq(t, 1, Len(s))

IsWrite(call) == call \notin {"user.findFirst", "redis.get"}

\* The writes delivery d has called for, in the order of the calls.
WriteCallsOf(d) == SelectSeq(trace[d], IsWrite)

\* The writes of delivery d that took effect.
WrittenBy(d) ==
    { ProvisioningOrder[i] : i \in
        { j \in 1..4 :
            <<local[d].documentDataId, local[d].documentId,
              local[d].recipientId, local[d].fieldId>>[j] # 0 } }
    \cup (IF sigWrite[d] = "ok" THEN {"signature.create"} ELSE {})
    \cup (IF docWrite[d] = "ok" THEN {"document.update"} ELSE {})

\* The rows of each table are the rows the deliveries have written.
RowsAreWritten ==
    LET Count(step) == Cardinality({ d \in Deliveries : step \in WrittenBy(d) })
    IN  /\ Len(documentData) = Count("documentData.create")
        /\ Len(documents) = Count("document.create")
        /\ Len(recipients) = Count("recipient.create")
        /\ Len(fields) = Count("field.create")
        /\ Len(signatures) = Count("signature.create")

\* What delivery d has written is a prefix of the order of the source.
WrittenPrefix(d) ==
    /\ \A i \in 2..4 :
            ProvisioningOrder[i] \in WrittenBy(d) =>
                ProvisioningOrder[i - 1] \in WrittenBy(d)
    /\ WrittenBy(d) \cap {"signature.create", "document.update"} # {} =>
            /\ ProvisioningOrder[4] \in WrittenBy(d)
            /\ Len(local[d].data.marks) = 1

\* C14: a delivery that is not a landing checkout writes none of these
\* records; the writes a landing delivery calls for follow the order
\* DocumentData, Document, Recipient, Field, then the two writes of
\* Promise.all in either order; what it has written is at every moment a
\* prefix of that order, the rows of the tables being exactly what the
\* deliveries have written; and once the handler has thrown, the delivery
\* writes nothing more but a write of Promise.all already started.
C14_WritesFollowOrder ==
    [][\A d \in Deliveries :
        /\ IsLanding(event'[d]) =>
                \E tail \in Step9Orders :
                    IsPrefix(WriteCallsOf(d)', ProvisioningOrder \o tail)
        /\ ~IsLanding(event'[d]) => WrittenBy(d)' = {}
        /\ WrittenPrefix(d)'
        /\ RowsAreWritten'
        /\ pc[d] = "thrown" =>
                /\ local'[d] = local[d]
                /\ WrittenBy(d)' \ WrittenBy(d) \subseteq
                      { w \in {"signature.create", "document.update"} :
                            Len(local[d].data.marks) = 1 }
      ]_vars

\* C14 witness: the creation of the recipient rejected: the delivery has
\* written its DocumentData and its Document and nothing after them, while
\* the other delivery went through every step.
C14_Witness ==
    \E d, e \in Deliveries :
        /\ IsLanding(event[d])
        /\ pc[d] = "thrown"
        /\ WriteCallsOf(d) =
              <<"documentData.create", "document.create", "recipient.create">>
        /\ WrittenBy(d) = {"documentData.create", "document.create"}
        /\ WrittenBy(e) =
              { ProvisioningOrder[i] : i \in 1..4 }
              \cup {"signature.create", "document.update"}


\* The signature of delivery d was created and its content update rejected.
HalfSigned(d) == sigWrite[d] = "ok" /\ docWrite[d] = "failed"

\* The content update of delivery d was applied and the creation of its
\* signature rejected.
HalfUpdated(d) == docWrite[d] = "ok" /\ sigWrite[d] = "failed"

\* The content of the DocumentData of delivery d.
DataOf(d) == documentData[local[d].documentDataId].data

\* The Document of delivery d is COMPLETED.
Completed(d) == documents[local[d].documentId].status = "COMPLETED"

\* C15: when one write of Promise.all rejects and the other is applied, the
\* records stay half written: with the content update rejected, the
\* Signature exists while DocumentData.data is the unsigned template; with
\* the signature creation rejected, the content is signed while no Signature
\* exists; the Document is COMPLETED in both; and no step leaves such a
\* state, removes a row or changes a Document, Recipient, Field or
\* Signature row.
C15_PartialWriteStays ==
    [][/\ \A d \in Deliveries :
            /\ HalfSigned(d)' =>
                    /\ Cardinality(SignaturesOf(d)') = 1
                    /\ DataOf(d)' = Bytes64
                    /\ Completed(d)'
            /\ HalfUpdated(d)' =>
                    /\ SignaturesOf(d)' = {}
                    /\ DataOf(d)' # Bytes64
                    /\ Len(DataOf(d)'.marks) = 1
                    /\ Completed(d)'
            /\ HalfSigned(d) => HalfSigned(d)' /\ DataOf(d)' = DataOf(d)
            /\ HalfUpdated(d) => HalfUpdated(d)' /\ DataOf(d)' = DataOf(d)
       /\ Len(documentData) <= Len(documentData')
       /\ IsPrefix(documents, documents')
       /\ IsPrefix(recipients, recipients')
       /\ IsPrefix(fields, fields')
       /\ IsPrefix(signatures, signatures')
      ]_vars

\* C15 witness: both handlers have thrown; one delivery has its Signature
\* and the unsigned template, the other the signed content and no Signature.
C15_Witness ==
    \E d, e \in Deliveries :
        /\ pc[d] = "thrown"
        /\ HalfSigned(d)
        /\ Cardinality(SignaturesOf(d)) = 1
        /\ DataOf(d) = Bytes64
        /\ Completed(d)
        /\ pc[e] = "thrown"
        /\ HalfUpdated(e)
        /\ SignaturesOf(e) = {}
        /\ DataOf(e) # Bytes64
        /\ Completed(e)


\* The ids of the records delivery d created, table by table.
IdsOf(d) ==
    <<local[d].documentDataId, local[d].documentId, local[d].recipientId,
      local[d].fieldId>>

\* C16: two deliveries of the same landing checkout event, whether one runs
\* after the other or their steps interleave, each provision a record set
\* of their own: when both are acknowledged, each has its DocumentData,
\* Document, Recipient, Field and Signature, no record is shared between
\* them, and the checkout has two Documents; and the later delivery fails
\* only when one of its calls rejects, never because of the earlier one.
C16_RedeliveryProvisionsAgain ==
    \A d, e \in Deliveries :
        (d # e /\ IsLanding(event[d]) /\ event[d] = event[e]) =>
            /\ (Answered200(d) /\ Answered200(e)) =>
                    /\ RecordSetOf(d)
                    /\ RecordSetOf(e)
                    /\ \A i \in 1..4 : IdsOf(d)[i] # IdsOf(e)[i]
                    /\ SignaturesOf(d) \cap SignaturesOf(e) = {}
                    /\ Cardinality(SignaturesOf(d)) = 1
                    /\ Cardinality(SignaturesOf(e)) = 1
                    /\ Len(documents) = 2
            /\ (local[e].documentId # 0 /\ pc[d] = "thrown") =>
                    resp[d].message = "Rejected"

\* C16 witness: the same landing checkout event was delivered twice and the
\* steps of the two runs interleaved; both were acknowledged and there are
\* two Documents and two Signatures.
C16_Witness ==
    \E d, e \in Deliveries :
        /\ d # e
        /\ IsLanding(event[d])
        /\ event[d] = event[e]
        /\ Answered200(d)
        /\ Answered200(e)
        /\ local[d].documentDataId < local[e].documentDataId
        /\ local[d].documentId > local[e].documentId
        /\ Len(documents) = 2
        /\ Len(signatures) = 2


\* This step applies the update of a customer.subscription.updated event
\* for the customer c.
UpdateAppliedFor(c) ==
    \E d \in Deliveries :
        /\ IsSubscriptionUpdated(event[d])
        /\ CustomerIdOf(event[d].object.customer) = c
        /\ pc[d] = "subscription.update"
        /\ pc'[d] = "done"
        /\ resp'[d].status = 200

\* C17: no step adds or removes a Subscription row, and a step changes the
\* row of a customer only by applying the update of a
\* customer.subscription.updated event for that customer: the steps of
\* checkouts and unhandled events, rejected calls and the updates for other
\* or unknown customers leave it as it was.
C17_SubscriptionFrame ==
    [][/\ DOMAIN subscriptions' = DOMAIN subscriptions
       /\ \A c \in DOMAIN subscriptions :
            subscriptions'[c] # subscriptions[c] => UpdateAppliedFor(c)
      ]_vars

\* C17 witness: an update for cus_1 was applied and a pledge provisioned;
\* the row of cus_1 has the event's terms and the row of cus_2 is as it
\* was.
C17_Witness ==
    \E d, e \in Deliveries :
        /\ Applied(d)
        /\ local[d].customerId = "cus_1"
        /\ IsLanding(event[e])
        /\ Answered200(e)
        /\ subscriptions["cus_1"].planId = "plan_b"
        /\ subscriptions["cus_1"] # InitialSubscriptions["cus_1"]
        /\ subscriptions["cus_2"] = InitialSubscriptions["cus_2"]
        /\ DOMAIN subscriptions = {"cus_1", "cus_2"}


\* C18: in every state, every Document references an existing DocumentData
\* and no two Documents the same one; every Recipient references an
\* existing Document; every Field references an existing Document and a
\* Recipient of that Document; every Signature references an existing Field
\* and the Recipient of that Field.
C18_OwnershipWellFormed ==
    /\ \A i \in DOMAIN documents :
            /\ documents[i].documentDataId \in DOMAIN documentData
            /\ \A j \in DOMAIN documents :
                    i # j =>
                        documents[i].documentDataId #
                            documents[j].documentDataId
    /\ \A i \in DOMAIN recipients :
            recipients[i].documentId \in DOMAIN documents
    /\ \A i \in DOMAIN fields :
            /\ fields[i].documentId \in DOMAIN documents
            /\ fields[i].recipientId \in DOMAIN recipients
            /\ recipients[fields[i].recipientId].documentId =
                  fields[i].documentId
    /\ \A i \in DOMAIN signatures :
            /\ signatures[i].fieldId \in DOMAIN fields
            /\ signatures[i].recipientId =
                  fields[signatures[i].fieldId].recipientId

\* C18 witness: two landing deliveries in flight whose creates interleaved
\* (the one that created the first Document created the second Recipient),
\* one with its Signature written, the other about to create its Field.
C18_Witness ==
    \E d, e \in Deliveries :
        /\ local[d].documentId = 1
        /\ local[d].recipientId = 2
        /\ local[e].documentId = 2
        /\ local[e].recipientId = 1
        /\ pc[e] = "field.create"
        /\ pc[d] = "Promise.all"
        /\ sigWrite[d] = "ok"
        /\ Len(signatures) = 1


\* The landing deliveries that were acknowledged.
Provisioned == { d \in Deliveries : IsLanding(event[d]) /\ Answered200(d) }

\* No delivery but the acknowledged landing deliveries has written a record.
OnlyProvisionedWrote == \A d \in Deliveries : WrittenBy(d) # {} => d \in Provisioned

\* The orders a set of deliveries can be processed in, one after the other.
Orders(D) ==
    { order \in [1..Cardinality(D) -> D] :
        \A i, j \in 1..Cardinality(D) : i # j => order[i] # order[j] }

\* The rows delivery d leaves when its DocumentData, Document, Recipient and
\* Field have the ids dd, doc, rcp and fld.
DocumentDataRow(d) ==
    [type |-> "BYTES_64", data |-> local[d].data, initialData |-> Bytes64]

DocumentRow(d, dd) ==
    [title |-> "Documenso Supporter Pledge.pdf", status |-> "COMPLETED",
     userId |-> Number(event[d].client_reference_id), documentDataId |-> dd]

RecipientRow(d, doc, rcp) ==
    [name |-> Coalesce(Users[Number(event[d].client_reference_id)].name, ""),
     email |-> Users[Number(event[d].client_reference_id)].email,
     token |-> RandomToken(rcp), signedAt |-> local[d].now,
     readStatus |-> "OPENED", sendStatus |-> "SENT",
     signingStatus |-> "SIGNED", documentId |-> doc]

FieldRow(doc, rcp) ==
    [documentId |-> doc, recipientId |-> rcp, type |-> "SIGNATURE",
     page |-> 0, positionX |-> 77, positionY |-> 638, inserted |-> FALSE,
     customText |-> ""]

SignatureRow(d, fld, rcp) ==
    SignatureData([local[d] EXCEPT !.fieldId = fld, !.recipientId = rcp])

\* The tables after the deliveries of `order` were processed one after the
\* other: the k-th delivery is given the id k in every table.
InTurnTables(order) ==
    <<[k \in DOMAIN order |-> DocumentDataRow(order[k])],
      [k \in DOMAIN order |-> DocumentRow(order[k], k)],
      [k \in DOMAIN order |-> RecipientRow(order[k], k, k)],
      [k \in DOMAIN order |-> FieldRow(k, k)],
      [k \in DOMAIN order |-> SignatureRow(order[k], k, k)]>>

\* C19 as stated: when the landing deliveries have been acknowledged, the
\* tables hold the very rows that processing them one after the other, in
\* some order, leaves.
C19_SameRecordsAsInTurn ==
    OnlyProvisionedWrote =>
        \E order \in Orders(Provisioned) : provisioned = InTurnTables(order)

\* The records of delivery d hold what processing d alone gives them, under
\* the ids d was given.
OwnRecords(d) ==
    LET l == local[d] IN
    /\ documentData[l.documentDataId] = DocumentDataRow(d)
    /\ l.data = SignedData([l EXCEPT !.data = Bytes64])
    /\ documents[l.documentId] = DocumentRow(d, l.documentDataId)
    /\ recipients[l.recipientId] = RecipientRow(d, l.documentId, l.recipientId)
    /\ fields[l.fieldId] = FieldRow(l.documentId, l.recipientId)
    /\ \E i \in DOMAIN signatures :
            signatures[i] = SignatureRow(d, l.fieldId, l.recipientId)

\* No two deliveries hold the same id of a table.
DisjointIds ==
    \A d, e \in Deliveries :
        \A i \in 1..4 :
            (d # e /\ IdsOf(d)[i] # 0) => IdsOf(d)[i] # IdsOf(e)[i]

\* C19: when the landing deliveries have been acknowledged, every table has
\* one row for each of them and the records of each delivery hold what
\* processing it alone gives them, whatever the interleaving: the tables
\* are those of processing the deliveries one after the other up to the ids
\* the rows were given.  The signature a delivery creates is for the Field
\* and the Recipient this delivery created, its content update changes the
\* DocumentData this delivery created and no other, and neither write
\* touches another row.
C19_SameRecordsUpToIds ==
    [][/\ DisjointIds'
       /\ OnlyProvisionedWrote' =>
            /\ \A i \in 1..5 : Len(provisioned'[i]) = Cardinality(Provisioned')
            /\ \A d \in Provisioned' : OwnRecords(d)'
       /\ \A d \in Deliveries :
            /\ (sigWrite[d] = "pending" /\ sigWrite'[d] = "ok") =>
                    /\ signatures' =
                          Append(signatures,
                                 SignatureRow(d, local[d].fieldId,
                                              local[d].recipientId))
                    /\ fields[local[d].fieldId] =
                          FieldRow(local[d].documentId, local[d].recipientId)
                    /\ UNCHANGED <<documentData, documents, recipients,
                                   fields>>
            /\ (docWrite[d] = "pending" /\ docWrite'[d] = "ok") =>
                    /\ documents[local[d].documentId].documentDataId =
                          local[d].documentDataId
                    /\ documentData' =
                          [documentData EXCEPT
                              ![local[d].documentDataId].data = local[d].data]
                    /\ UNCHANGED <<documents, recipients, fields, signatures>>
      ]_vars

\* C19 witness: two landing deliveries for different users were acknowledged
\* after their steps interleaved: the Document of the one references the
\* DocumentData with the other id, and each has its own records.
C19_Witness ==
    \E d, e \in Provisioned :
        /\ event[d].client_reference_id # event[e].client_reference_id
        /\ IdsOf(d) = <<1, 2, 1, 2>>
        /\ IdsOf(e) = <<2, 1, 2, 1>>
        /\ OwnRecords(d)
        /\ OwnRecords(e)
        /\ SignaturesOf(d) = {2}


\* planId, status, cancelAtPeriodEnd and periodEnd as the event gives them.
EventTerms(ev) ==
    <<ev.object.plan, MatchStatus(ev.object.status),
      ev.object.cancel_at_period_end, ev.object.current_period_end * 1000>>

\* The deliveries whose update was applied to the row of customer c.
AppliedTo(c) ==
    { d \in Deliveries :
        Applied(d) /\ CustomerIdOf(event[d].object.customer) = c }

\* C20: the step that applies the update of a delivery gives the row the
\* four terms of that delivery's event and the updatedAt the delivery read,
\* whatever the row held and whatever was applied before; so after every
\* step each row holds the terms of one single applied event (of the
\* initial row when none was applied), never terms of two events mixed.
C20_LastWriteWins ==
    [][/\ \A d \in Deliveries :
            ( /\ IsSubscriptionUpdated(event[d])
              /\ pc[d] = "subscription.update"
              /\ pc'[d] = "done" ) =>
                LET c == CustomerIdOf(event[d].object.customer) IN
                /\ resp'[d].status = 200
                /\ Terms(subscriptions'[c]) = EventTerms(event[d])
                /\ subscriptions'[c].updatedAt = local[d].now
       /\ \A c \in DOMAIN subscriptions' :
            IF AppliedTo(c)' = {}
            THEN subscriptions'[c] = InitialSubscriptions[c]
            ELSE \E d \in AppliedTo(c)' :
                    /\ Terms(subscriptions'[c]) = EventTerms(event'[d])
                    /\ subscriptions'[c].updatedAt = local'[d].now
      ]_vars

\* C20 witness: two different events for cus_1 were applied; the row holds
\* all four terms of the one delivered first, whose period ends earlier and
\* whose updatedAt is the earlier reading of the clock: it was applied last
\* and overwrote the newer one.
C20_Witness ==
    /\ AppliedTo("cus_1") = {1, 2}
    /\ event[1].object.current_period_end < event[2].object.current_period_end
    /\ local[1].now < local[2].now
    /\ \A i \in 1..4 : EventTerms(event[1])[i] # EventTerms(event[2])[i]
    /\ Terms(subscriptions["cus_1"]) = EventTerms(event[1])
    /\ subscriptions["cus_1"].updatedAt = local[1].now

====
